---- MODULE Spec2Model ----
(***************************************************************************)
(* A model of polls/views.py: the four request handlers of the polling     *)
(* application (IndexView, DetailView, ResultsView, vote), the storage     *)
(* they query (Question and Choice rows) and the responses they build.     *)
(* Each database query of a handler is one atomic step; requests run       *)
(* concurrently and interleave between their queries.                      *)
(***************************************************************************)
EXTENDS Integers, Sequences, FiniteSets

(***************************************************************************)
(* Arbitrary-precision naturals: a sequence of limbs of LimbBits bits,     *)
(* least significant first, without leading (high) zero limbs; <<>> is 0.  *)
(* They carry the 53-bit significands of the floating-point percentages    *)
(* that ResultsView computes.                                              *)
(***************************************************************************)
LimbBits == 24

RECURSIVE Pow2(_)
Pow2(n) ==
    IF n <= 0 THEN 1 ELSE 2 * Pow2(n - 1)

Limb == Pow2(LimbBits)

RECURSIVE BNorm(_)
BNorm(b) ==
    IF b = <<>> THEN <<>>
    ELSE IF b[Len(b)] = 0 THEN BNorm(SubSeq(b, 1, Len(b) - 1))
    ELSE b

RECURSIVE BFromNat(_)
BFromNat(n) ==
    IF n = 0 THEN <<>> ELSE <<n % Limb>> \o BFromNat(n \div Limb)

LimbAt(b, i) ==
    IF i >= 1 /\ i <= Len(b) THEN b[i] ELSE 0

BMax(x, y) ==
    IF x >= y THEN x ELSE y

RECURSIVE BAddFrom(_, _, _, _)
BAddFrom(a, b, i, carry) ==
    IF i > BMax(Len(a), Len(b))
    THEN (IF carry = 0 THEN <<>> ELSE <<carry>>)
    ELSE LET t == LimbAt(a, i) + LimbAt(b, i) + carry
         IN  <<t % Limb>> \o BAddFrom(a, b, i + 1, t \div Limb)

BAdd(a, b) ==
    BAddFrom(a, b, 1, 0)

RECURSIVE BMulFrom(_, _, _, _)
BMulFrom(a, k, i, carry) ==
    IF i > Len(a) THEN BFromNat(carry)
    ELSE LET t == a[i] * k + carry
         IN  <<t % Limb>> \o BMulFrom(a, k, i + 1, t \div Limb)

\* a * k for a natural k < 128 (a limb times k stays below 2^31)
BMulSmall(a, k) ==
    BNorm(BMulFrom(a, k, 1, 0))

\* a * 2^n
BShl(a, n) ==
    LET w == n \div LimbBits
        s == n % LimbBits
        cut == Pow2(LimbBits - s)
    IN  IF a = <<>> \/ n <= 0 THEN a
        ELSE [i \in 1..w |-> 0]
             \o BNorm([i \in 1..(Len(a) + 1) |->
                        (LimbAt(a, i) % cut) * Pow2(s) + (LimbAt(a, i - 1) \div cut)])

\* a \div 2^n
BShr(a, n) ==
    LET w == n \div LimbBits
        s == n % LimbBits
    IN  IF n <= 0 THEN a
        ELSE BNorm([i \in 1..(Len(a) - w) |->
                     (LimbAt(a, i + w) \div Pow2(s))
                     + (LimbAt(a, i + w + 1) % Pow2(s)) * Pow2(LimbBits - s)])

\* a % 2^n
BLow(a, n) ==
    LET w == n \div LimbBits
        s == n % LimbBits
    IN  BNorm([i \in 1..(w + 1) |->
                IF i <= w THEN LimbAt(a, i) ELSE LimbAt(a, i) % Pow2(s)])

RECURSIVE NatBits(_)
NatBits(n) ==
    IF n = 0 THEN 0 ELSE 1 + NatBits(n \div 2)

\* the number of significant bits of a
BBits(a) ==
    IF a = <<>> THEN 0 ELSE (Len(a) - 1) * LimbBits + NatBits(a[Len(a)])

RECURSIVE BLessFrom(_, _, _)
BLessFrom(a, b, i) ==
    IF i = 0 THEN FALSE
    ELSE IF a[i] # b[i] THEN a[i] < b[i]
    ELSE BLessFrom(a, b, i - 1)

BLess(a, b) ==
    IF Len(a) # Len(b) THEN Len(a) < Len(b) ELSE BLessFrom(a, b, Len(a))

BOdd(a) ==
    a # <<>> /\ a[1] % 2 = 1

(***************************************************************************)
(* IEEE 754 binary64, as Python's float: the value m * 2^e with m a        *)
(* significand of exactly MantBits bits, or zero (m = <<>>).               *)
(***************************************************************************)
MantBits == 53

FZero == [m |-> <<>>, e |-> 0]

\* The natural n * 2^e rounded to MantBits bits, to nearest, ties to even.
FRound(n, e) ==
    LET len  == BBits(n)
        drop == len - MantBits
        hi   == BShr(n, drop)
        low  == BLow(n, drop)
        half == BShl(<<1>>, drop - 1)
        up   == BLess(half, low) \/ (low = half /\ BOdd(hi))
        r    == IF up THEN BAdd(hi, <<1>>) ELSE hi
    IN  IF n = <<>> THEN FZero
        ELSE IF drop <= 0 THEN [m |-> BShl(n, -drop), e |-> e + drop]
        ELSE IF BBits(r) > MantBits THEN [m |-> BShr(r, 1), e |-> e + drop + 1]
        ELSE [m |-> r, e |-> e + drop]

\* The k with b * 2^k <= a < b * 2^(k+1), for a, b > 0.
RECURSIVE QuotExp(_, _)
QuotExp(a, b) ==
    IF a < b THEN QuotExp(2 * a, b) - 1
    ELSE IF a >= 2 * b THEN QuotExp(a, 2 * b) + 1
    ELSE 0

\* Python's int / int (true division), correctly rounded, for 0 <= a, 0 < b,
\* both below 128: three limbs of the quotient by long division, the
\* remainder folded into the lowest bit (a sticky bit).
FDiv(a, b) ==
    LET k   == QuotExp(a, b)
        num == IF k < 0 THEN a * Pow2(-k) ELSE a
        den == IF k > 0 THEN b * Pow2(k) ELSE b
        r0  == num - den
        q1  == (r0 * Limb) \div den
        r1  == (r0 * Limb) % den
        q2  == (r1 * Limb) \div den
        r2  == (r1 * Limb) % den
        q3  == (r2 * Limb) \div den
        r3  == (r2 * Limb) % den
        q3s == IF r3 # 0 /\ q3 % 2 = 0 THEN q3 + 1 ELSE q3
    IN  IF a = 0 THEN FZero
        ELSE FRound(<<q3s, q2, q1, 1>>, k - 3 * LimbBits)

\* Python's float * int for a natural k < 128.
FMulSmall(x, k) ==
    FRound(BMulSmall(x.m, k), x.e)

(***************************************************************************)
(* Bounds of the model.                                                    *)
(***************************************************************************)
\* concurrent vote requests besides the client's own request
NumVoters == 1
\* vote requests are accepted while fewer than MaxVotes votes are stored
MaxVotes == 4
\* timezone.now() returns a time in 0..MaxTime
MaxTime == 1

Client == 0
Voters == 1..NumVoters
Procs == {Client} \cup Voters
Times == 0..MaxTime

(***************************************************************************)
(* Storage: the Question and Choice tables.  Rows are created by the       *)
(* administration, outside the views; the views only update Choice.votes.  *)
(***************************************************************************)
VARIABLES
    questions,   \* Question rows:  pk -> [pub_date]
    choices,     \* Choice rows:    pk -> [question (foreign key), votes]
    pc,          \* per request slot: the handler's next step
    request,     \* per request slot: the request being served
    local,       \* per request slot: the handler's local variables
    response,    \* per request slot: the response returned
    voted        \* per Choice: the vote requests answered with the redirect

vars == <<questions, choices, pc, request, local, response, voted>>

QuestionPks == DOMAIN questions
ChoicePks == DOMAIN choices

\* Choice.objects: the rows of every question
choice_set_unfiltered(question_id) ==
    ChoicePks

\* question.choice_set: the Choice rows whose foreign key is the question
choice_set(question_id) ==
    {c \in ChoicePks : choices[c].question = question_id}

\* a filter with pub_date__lt in place of pub_date__lte
PublishedBefore(t) ==
    {q \in QuestionPks : questions[q].pub_date < t}

\* Question.objects.filter(pub_date__lte=now)
Published(t) ==
    {q \in QuestionPks : questions[q].pub_date <= t}

\* a lookup through the published questions, as the read views do
QuestionPublished(question_id) ==
    \A t \in Times : question_id \in Published(t)

\* get_object_or_404(Question, pk=question_id)
QuestionExists(question_id) ==
    question_id \in QuestionPks

RECURSIVE SumVotes(_)
SumVotes(rows) ==
    IF rows = {} THEN 0
    ELSE LET c == CHOOSE x \in rows : TRUE
         IN  choices[c].votes + SumVotes(rows \ {c})

\* aggregate(Sum('votes')): SQL SUM over the rows, NULL (<<>>) over no rows
AggregateSum(rows) ==
    IF rows = {} THEN <<>> ELSE <<SumVotes(rows)>>

\* Coalesce(Sum('votes'), 0)
Coalesce(value, default) ==
    IF value = <<>> THEN default ELSE value[1]

\* Python's  value or 0  on an aggregate: None and 0 are both falsy
OrZero(value) ==
    IF value = <<>> THEN 0 ELSE IF value[1] = 0 THEN 0 ELSE value[1]

(***************************************************************************)
(* Requests and responses.                                                 *)
(***************************************************************************)
NoRequest == [view |-> "none", question_id |-> 0, POST |-> {}]
NoLocal == <<>>
NoResponse == [status |-> 0, template |-> "", context |-> <<>>, location |-> <<>>]

\* Http404 raised by get_object_or_404 / DetailView.get_object
NotFound == [status |-> 404, template |-> "", context |-> <<>>, location |-> <<>>]

\* an exception no handler catches: the server's error response
ServerError == [status |-> 500, template |-> "", context |-> <<>>, location |-> <<>>]

Render(template, context) ==
    [status |-> 200, template |-> template, context |-> context, location |-> <<>>]

\* HttpResponseRedirect(reverse('polls:results', args=(question_id,)))
Redirect(question_id) ==
    [status |-> 302, template |-> "", context |-> <<>>,
     location |-> <<"polls:results", question_id>>]

(***************************************************************************)
(* Queries whose row order the database decides.                           *)
(***************************************************************************)
\* IndexView.get_queryset slices the ordered query with [:10]
ListLimit == 10

\* the rows an ascending order (order_by("pub_date")) puts first
Oldest(rows) ==
    {q \in rows : \A r \in rows : questions[q].pub_date <= questions[r].pub_date}

Newest(rows) ==
    {q \in rows : \A r \in rows : questions[r].pub_date <= questions[q].pub_date}

\* .order_by("-pub_date")[:n] over rows: every sequence the database may
\* return, rows of equal pub_date in any order
RECURSIVE LatestLists(_, _)
LatestLists(rows, n) ==
    IF rows = {} \/ n = 0 THEN {<<>>}
    ELSE UNION {{<<q>> \o rest : rest \in LatestLists(rows \ {q}, n - 1)} :
                q \in Newest(rows)}

\* an unordered query (choice_set.all()): the rows in any order
RECURSIVE Orderings(_)
Orderings(rows) ==
    IF rows = {} THEN {<<>>}
    ELSE UNION {{<<c>> \o rest : rest \in Orderings(rows \ {c})} : c \in rows}

(***************************************************************************)
(* The submitted form.  request.POST is a set of <<key, value>> pairs, a   *)
(* value being the submitted string, character by character.               *)
(***************************************************************************)
HasKey(POST, key) ==
    \E kv \in POST : kv[1] = key

GetKey(POST, key) ==
    (CHOOSE kv \in POST : kv[1] = key)[2]

DigitValue(ch) ==
    CASE ch = "0" -> 0 [] ch = "1" -> 1 [] ch = "2" -> 2 [] ch = "3" -> 3
      [] ch = "4" -> 4 [] ch = "5" -> 5 [] ch = "6" -> 6 [] ch = "7" -> 7
      [] ch = "8" -> 8 [] ch = "9" -> 9 [] OTHER -> -1

RECURSIVE DecimalValue(_, _)
DecimalValue(str, acc) ==
    IF str = <<>> THEN acc
    ELSE DecimalValue(SubSeq(str, 2, Len(str)), 10 * acc + DigitValue(str[1]))

\* the primary-key lookup converts the submitted string with int(): <<n>>, or
\* <<>> where int() raises ValueError
ToPk(str) ==
    IF str # <<>> /\ \A i \in 1..Len(str) : DigitValue(str[i]) >= 0
    THEN <<DecimalValue(str, 0)>>
    ELSE <<>>

(***************************************************************************)
(* ResultsView's arithmetic.                                               *)
(***************************************************************************)
\* the quotient without the factor 100
PercentageUnscaled(votes, total_votes) ==
    IF total_votes > 0 THEN FDiv(votes, total_votes) ELSE FZero

\* the quotient with its operands exchanged
PercentageInverted(votes, total_votes) ==
    IF total_votes > 0 /\ votes > 0
    THEN FMulSmall(FDiv(total_votes, votes), 100) ELSE FZero

\* (choice.votes / total_votes) * 100 if total_votes > 0 else 0
Percentage(votes, total_votes) ==
    IF total_votes > 0 THEN FMulSmall(FDiv(votes, total_votes), 100) ELSE FZero

\* a maximum that keeps the last of the largest
RECURSIVE MaxByVotesLast(_, _, _)
MaxByVotesLast(rows, i, best) ==
    IF i > Len(rows) THEN best
    ELSE MaxByVotesLast(rows, i + 1,
                        IF rows[i].votes >= best.votes THEN rows[i] ELSE best)

\* max(choices, key=lambda c: c.votes): the first of the largest
RECURSIVE MaxByVotes(_, _, _)
MaxByVotes(rows, i, best) ==
    IF i > Len(rows) THEN best
    ELSE MaxByVotes(rows, i + 1, IF rows[i].votes > best.votes THEN rows[i] ELSE best)

MostPopular(rows, total_votes) ==
    IF total_votes > 0 /\ rows # <<>> THEN <<MaxByVotes(rows, 2, rows[1])>> ELSE <<>>

(***************************************************************************)
(* vote's update.                                                          *)
(***************************************************************************)
\* the value assigned computed in the process from the votes it read
AssignedVotesInProcess(read_votes) ==
    [column |-> FALSE, add |-> read_votes + 1]

\* selected_choice.votes = F('votes') + 1: the value assigned is an
\* expression over the stored column, not the number read
AssignedVotes(read_votes) ==
    [column |-> TRUE, add |-> 1]

\* an UPDATE that counts the vote twice
SavedVotesTwice(value, stored_votes) ==
    IF value.column THEN stored_votes + value.add + 1 ELSE value.add

\* selected_choice.save(): UPDATE ... SET votes = <value>, the expression
\* evaluated by the database against the row as it is stored now
SavedVotes(value, stored_votes) ==
    IF value.column THEN stored_votes + value.add ELSE value.add

(***************************************************************************)
(* Inputs.                                                                 *)
(***************************************************************************)
\* a primary key no Question row has
MissingQuestion == Cardinality(QuestionPks) + 1

RequestQuestionIds == QuestionPks \cup {MissingQuestion}

\* the strings a form may submit as its choice: the keys of the Choice rows,
\* a number no Choice row has, and a string that is no number
SubmittedChoices == {<<"1">>, <<"2">>, <<"3">>, <<"9">>, <<"x">>}

PostForms == {{}} \cup {{<<"choice", str>>} : str \in SubmittedChoices}

\* A vote that reaches its UPDATE: the question exists and the form names one
\* of its choices.
ValidVote(question_id, POST) ==
    /\ question_id \in QuestionPks
    /\ HasKey(POST, "choice")
    /\ ToPk(GetKey(POST, "choice")) # <<>>
    /\ ToPk(GetKey(POST, "choice"))[1] \in choice_set(question_id)

\* The client's slot serves any request; the other slots carry the
\* concurrent votes that reach the UPDATE (a vote that fails is one step
\* that reads rows no view writes, so it interleaves with nothing).
MayVote(p, question_id, POST) ==
    p = Client \/ ValidVote(question_id, POST)

VotesInFlight ==
    Cardinality({p \in Procs : pc[p] = "vote_save"})

Respond(p, resp, kept) ==
    /\ pc' = [pc EXCEPT ![p] = "done"]
    /\ response' = [response EXCEPT ![p] = resp]
    /\ local' = [local EXCEPT ![p] = kept]

Step(p, next, loc) ==
    /\ pc' = [pc EXCEPT ![p] = next]
    /\ local' = [local EXCEPT ![p] = loc]
    /\ UNCHANGED response

(***************************************************************************)
(* IndexView                                                               *)
(***************************************************************************)
IndexContext(loc, attached) ==
    [latest_question_list |->
        [i \in 1..Len(loc.latest_question_list) |->
            [pk |-> loc.latest_question_list[i], total_votes |-> attached[i]]],
     total_polls |-> loc.total_polls,
     total_votes |-> loc.total_votes]

\* get_queryset binds timezone.now(); get_context_data counts the questions
IndexGet(p) ==
    /\ pc[p] = "idle"
    /\ \E t \in Times :
        /\ request' = [request EXCEPT ![p] =
                          [view |-> "index", question_id |-> 0, POST |-> {}]]
        /\ Step(p, "index_total_votes",
                [now |-> t, total_polls |-> Cardinality(QuestionPks)])
    /\ UNCHANGED <<questions, choices, voted>>

\* Choice.objects.aggregate(total=Coalesce(Sum('votes'), 0))
IndexTotalVotes(p) ==
    /\ pc[p] = "index_total_votes"
    /\ Step(p, "index_list",
            [now |-> local[p].now, total_polls |-> local[p].total_polls,
             total_votes |-> Coalesce(AggregateSum(ChoicePks), 0)])
    /\ UNCHANGED <<questions, choices, request, voted>>

\* the for loop evaluates the sliced queryset
IndexList(p) ==
    /\ pc[p] = "index_list"
    /\ \E list \in LatestLists(Published(local[p].now), ListLimit) :
        LET loc == [now |-> local[p].now, total_polls |-> local[p].total_polls,
                    total_votes |-> local[p].total_votes,
                    latest_question_list |-> list, attached |-> <<>>]
        IN  IF list = <<>>
            THEN Respond(p, Render("polls/index.html", IndexContext(loc, <<>>)),
                         [now |-> loc.now])
            ELSE Step(p, "index_question", loc)
    /\ UNCHANGED <<questions, choices, request, voted>>

\* one pass of the loop: question.choice_set.aggregate(...) for the next question
IndexQuestionVotes(p) ==
    /\ pc[p] = "index_question"
    /\ LET loc      == local[p]
           question == loc.latest_question_list[Len(loc.attached) + 1]
           attached == Append(loc.attached,
                              Coalesce(AggregateSum(choice_set(question)), 0))
       IN  IF Len(attached) = Len(loc.latest_question_list)
           THEN Respond(p, Render("polls/index.html", IndexContext(loc, attached)),
                        [now |-> loc.now])
           ELSE Step(p, "index_question", [loc EXCEPT !.attached = attached])
    /\ UNCHANGED <<questions, choices, request, voted>>

(***************************************************************************)
(* DetailView                                                              *)
(***************************************************************************)
\* get_queryset and get_object: the question among the published ones, or 404
DetailGet(p) ==
    /\ pc[p] = "idle"
    /\ \E t \in Times, question_id \in RequestQuestionIds :
        /\ request' = [request EXCEPT ![p] =
                          [view |-> "detail", question_id |-> question_id, POST |-> {}]]
        /\ IF question_id \in Published(t)
           THEN Step(p, "detail_total", [now |-> t])
           ELSE Respond(p, NotFound, [now |-> t])
    /\ UNCHANGED <<questions, choices, voted>>

DetailTotal(p) ==
    /\ pc[p] = "detail_total"
    /\ LET question_id == request[p].question_id
           total_votes == Coalesce(AggregateSum(choice_set(question_id)), 0)
       IN  Respond(p, Render("polls/detail.html",
                             [question |-> [pk |-> question_id,
                                            total_votes |-> total_votes]]),
                   local[p])
    /\ UNCHANGED <<questions, choices, request, voted>>

(***************************************************************************)
(* ResultsView                                                             *)
(***************************************************************************)
ResultsGet(p) ==
    /\ pc[p] = "idle"
    /\ \E t \in Times, question_id \in RequestQuestionIds :
        /\ request' = [request EXCEPT ![p] =
                          [view |-> "results", question_id |-> question_id, POST |-> {}]]
        /\ IF question_id \in Published(t)
           THEN Step(p, "results_total", [now |-> t])
           ELSE Respond(p, NotFound, [now |-> t])
    /\ UNCHANGED <<questions, choices, voted>>

\* choices.aggregate(total=Sum('votes'))['total'] or 0
ResultsTotal(p) ==
    /\ pc[p] = "results_total"
    /\ Step(p, "results_choices",
            [now |-> local[p].now,
             total_votes |-> OrZero(AggregateSum(choice_set(request[p].question_id)))])
    /\ UNCHANGED <<questions, choices, request, voted>>

\* the for loop fetches the choices; the percentages and the most popular
\* choice are computed on the rows fetched
ResultsChoices(p) ==
    /\ pc[p] = "results_choices"
    /\ \E order \in Orderings(choice_set(request[p].question_id)) :
        LET total_votes == local[p].total_votes
            rows == [i \in 1..Len(order) |->
                        [pk |-> order[i], votes |-> choices[order[i]].votes,
                         percentage |-> Percentage(choices[order[i]].votes, total_votes)]]
        IN  Respond(p, Render("polls/results.html",
                              [question |-> [pk |-> request[p].question_id,
                                             total_votes |-> total_votes,
                                             most_popular_choice |->
                                                 MostPopular(rows, total_votes)],
                               choices |-> rows]),
                    [now |-> local[p].now])
    /\ UNCHANGED <<questions, choices, request, voted>>

(***************************************************************************)
(* vote                                                                    *)
(***************************************************************************)
ErrorMessage == "You didn't select a choice."

\* the response of the except branch
MissingSelection(question_id) ==
    Render("polls/detail.html",
           [question |-> [pk |-> question_id], error_message |-> ErrorMessage])

\* get_object_or_404, then question.choice_set.get(pk=request.POST['choice'])
\* and the assignment of F('votes') + 1
VoteStart(p) ==
    /\ pc[p] = "idle"
    /\ SumVotes(ChoicePks) + VotesInFlight < MaxVotes
    /\ \E question_id \in RequestQuestionIds, POST \in PostForms :
        /\ MayVote(p, question_id, POST)
        /\ request' = [request EXCEPT ![p] =
                          [view |-> "vote", question_id |-> question_id, POST |-> POST]]
        /\ IF ~QuestionExists(question_id)
           THEN Respond(p, NotFound, NoLocal)
           ELSE IF ~HasKey(POST, "choice")
           THEN Respond(p, MissingSelection(question_id), NoLocal)      \* KeyError
           ELSE LET pk == ToPk(GetKey(POST, "choice"))
                IN  IF pk = <<>>
                    THEN Respond(p, ServerError, NoLocal)                \* ValueError
                    ELSE IF pk[1] \notin choice_set(question_id)
                    THEN Respond(p, MissingSelection(question_id), NoLocal)  \* DoesNotExist
                    ELSE Step(p, "vote_save",
                              [selected_choice |->
                                  [pk |-> pk[1],
                                   votes |-> AssignedVotes(choices[pk[1]].votes)]])
    /\ UNCHANGED <<questions, choices, voted>>

\* selected_choice.save()
VoteSave(p) ==
    /\ pc[p] = "vote_save"
    /\ LET selected_choice == local[p].selected_choice
       IN  choices' = [choices EXCEPT ![selected_choice.pk].votes =
                          SavedVotes(selected_choice.votes, @)]
    /\ pc' = [pc EXCEPT ![p] = "vote_refresh"]
    /\ UNCHANGED <<questions, request, local, response, voted>>

\* selected_choice.refresh_from_db(), whose result nothing reads, then the
\* redirect
VoteRefresh(p) ==
    /\ pc[p] = "vote_refresh"
    /\ Respond(p, Redirect(request[p].question_id), NoLocal)
    /\ voted' = [voted EXCEPT ![local[p].selected_choice.pk] = @ + 1]
    /\ UNCHANGED <<questions, choices, request>>

\* the response is delivered and the slot is free again
Finish(p) ==
    /\ pc[p] = "done"
    /\ pc' = [pc EXCEPT ![p] = "idle"]
    /\ request' = [request EXCEPT ![p] = NoRequest]
    /\ local' = [local EXCEPT ![p] = NoLocal]
    /\ response' = [response EXCEPT ![p] = NoResponse]
    /\ UNCHANGED <<questions, choices, voted>>

(***************************************************************************)
(* Specifications.                                                         *)
(***************************************************************************)
InitSlots ==
    /\ pc = [p \in Procs |-> "idle"]
    /\ request = [p \in Procs |-> NoRequest]
    /\ local = [p \in Procs |-> NoLocal]
    /\ response = [p \in Procs |-> NoResponse]

\* Choices 1 and 2 of question 1 and choice 3 of question 2, every counter at
\* its default, 0.
InitChoices ==
    /\ choices = <<[question |-> 1, votes |-> 0], [question |-> 1, votes |-> 0],
                   [question |-> 2, votes |-> 0]>>
    /\ voted = [c \in 1..3 |-> 0]

\* Three questions: question 1 published from time 0 on, question 2 not
\* published at any time in Times, question 3 (without choices) published
\* from time 1 on.
Init ==
    /\ questions = <<[pub_date |-> 0], [pub_date |-> MaxTime + 1], [pub_date |-> 1]>>
    /\ InitChoices
    /\ InitSlots

Next ==
    \/ IndexGet(Client)
    \/ IndexTotalVotes(Client)
    \/ IndexList(Client)
    \/ IndexQuestionVotes(Client)
    \/ DetailGet(Client)
    \/ DetailTotal(Client)
    \/ ResultsGet(Client)
    \/ ResultsTotal(Client)
    \/ ResultsChoices(Client)
    \/ \E p \in Procs : VoteStart(p)
    \/ \E p \in Procs : VoteSave(p)
    \/ \E p \in Procs : VoteRefresh(p)
    \/ \E p \in Procs : Finish(p)

Spec == Init /\ [][Next]_vars

(***************************************************************************)
(* The listing over a table of more questions than ListLimit: pub_dates    *)
(* all different or shared by up to MaxTies questions, in an order that    *)
(* is not the order of the keys, with MaxShift + 1 or fewer of the newest  *)
(* questions not yet published, and a table with nothing published.        *)
(***************************************************************************)
NumListed == 12
MaxTies == 2
MaxShift == 3

PubDate(q, ties, shift) ==
    MaxTime + shift - (((q * 5) % (NumListed + 1)) \div ties)

InitListing ==
    /\ \E ties \in 1..MaxTies, shift \in (0..MaxShift) \cup {NumListed + 1} :
           questions = [q \in 1..NumListed |-> [pub_date |-> PubDate(q, ties, shift)]]
    /\ InitChoices
    /\ InitSlots

NextListing ==
    \/ IndexGet(Client)
    \/ IndexTotalVotes(Client)
    \/ IndexList(Client)
    \/ IndexQuestionVotes(Client)
    \/ Finish(Client)

SpecListing == InitListing /\ [][NextListing]_vars

(***************************************************************************)
(* Properties.                                                             *)
(***************************************************************************)
Done(p, view) ==
    pc[p] = "done" /\ request[p].view = view

VotesOf(c) ==
    choices[c].votes

\* C1: No vote is lost.  Every counter, which starts at 0, equals the number
\* of vote requests for that choice answered with the redirect plus the
\* number of those whose UPDATE is done and whose redirect is still to come,
\* however the requests interleave.
NoLostUpdate ==
    \A c \in ChoicePks :
        VotesOf(c) = voted[c]
                     + Cardinality({p \in Procs : /\ pc[p] = "vote_refresh"
                                                  /\ local[p].selected_choice.pk = c})

\* two requests in flight at once for one choice, both UPDATEs done
ConcurrentVotesLanded ==
    \E p \in Procs, q \in Procs :
        /\ p # q
        /\ pc[p] = "vote_refresh" /\ pc[q] = "vote_refresh"
        /\ local[p].selected_choice.pk = local[q].selected_choice.pk
        /\ VotesOf(local[p].selected_choice.pk) = voted[local[p].selected_choice.pk] + 2

\* the submitted form names a Choice of the question
NamesChoiceOf(POST, question_id) ==
    /\ HasKey(POST, "choice")
    /\ \E c \in ChoicePks :
        /\ choices[c].question = question_id
        /\ ToPk(GetKey(POST, "choice")) = <<c>>

\* C2: A finished vote on an existing question whose form has no choice, or a
\* choice that names no Choice of that question, is answered with the voting
\* form of the same question and the error message, not with a redirect.
BadChoiceRedisplaysForm ==
    \A p \in Procs :
        (/\ Done(p, "vote")
         /\ request[p].question_id \in QuestionPks
         /\ ~NamesChoiceOf(request[p].POST, request[p].question_id))
        => /\ response[p].status = 200
           /\ response[p].template = "polls/detail.html"
           /\ response[p].context.question.pk = request[p].question_id
           /\ response[p].context.error_message = "You didn't select a choice."
           /\ response[p].location = <<>>

\* C3: Detail and Results answer with the question exactly when a Question
\* with that key exists and its pub_date is <= the now of the request;
\* otherwise the answer is the one Not Found response, the same for an
\* unpublished and for a missing question, and no later step of the view runs.
ReadsFindPublishedOnly ==
    \A p \in Procs :
        LET q == request[p].question_id
            visible == q \in DOMAIN questions /\ questions[q].pub_date <= local[p].now
        IN  /\ (Done(p, "detail") \/ Done(p, "results"))
               => /\ response[p].status = 200 <=> visible
                  /\ visible => response[p].context.question.pk = q
                  /\ ~visible => response[p] = NotFound
            /\ pc[p] \in {"detail_total", "results_total", "results_choices"} => visible

\* an existing question not yet published is answered Not Found
UnpublishedNotFound ==
    \E p \in Procs :
        /\ Done(p, "results")
        /\ request[p].question_id \in DOMAIN questions
        /\ questions[request[p].question_id].pub_date > local[p].now
        /\ response[p] = NotFound

\* C4: vote answers Not Found exactly when no Question has the key, and that
\* step changes no counter; pub_date plays no part: a valid choice of an
\* existing question, published or not, is accepted, its counter raised by 1
\* and the answer is the redirect to the results of the same question.
VoteNotFoundIffMissing ==
    /\ [](\A p \in Procs :
            Done(p, "vote")
            => /\ response[p] = NotFound <=> request[p].question_id \notin DOMAIN questions
               /\ NamesChoiceOf(request[p].POST, request[p].question_id)
                  => /\ response[p].status = 302
                     /\ response[p].location = <<"polls:results", request[p].question_id>>)
    /\ [][\A p \in Procs :
            /\ (pc'[p] = "done" /\ pc[p] # "done" /\ response'[p] = NotFound)
               => choices' = choices
            /\ (pc[p] = "idle" /\ request'[p].view = "vote"
                /\ NamesChoiceOf(request'[p].POST, request'[p].question_id))
               => pc'[p] = "vote_save"
            /\ (pc[p] = "vote_save" /\ pc'[p] # "vote_save")
               => LET c == ToPk(GetKey(request[p].POST, "choice"))[1]
                  IN  VotesOf(c)' = VotesOf(c) + 1]_vars

\* a vote for choice 3 of question 2, which is published at no time in Times,
\* was counted and answered with the redirect
UnpublishedVoteAccepted ==
    \E p \in Procs :
        /\ Done(p, "vote")
        /\ response[p].status = 302
        /\ \A t \in Times : questions[request[p].question_id].pub_date > t
        /\ response[p].location = <<"polls:results", request[p].question_id>>
        /\ voted[ToPk(GetKey(request[p].POST, "choice"))[1]] >= 1

\* C5: The listing holds only questions published at the now of the request,
\* newest first, min(10, number published) of them, and leaves out a
\* published question only when 10 listed ones are at least as recent; with
\* nothing published it is the empty list, rendered as any other.
ListingIsLatestTen ==
    \A p \in Procs :
        Done(p, "index") =>
            LET list == response[p].context.latest_question_list
                published == {q \in DOMAIN questions :
                                 questions[q].pub_date <= local[p].now}
                listed == {list[i].pk : i \in 1..Len(list)}
            IN  /\ response[p].status = 200
                /\ listed \subseteq published
                /\ Cardinality(listed) = Len(list)
                /\ \A i \in 1..Len(list), j \in 1..Len(list) :
                       i < j => questions[list[i].pk].pub_date
                                >= questions[list[j].pk].pub_date
                /\ Len(list) = (IF Cardinality(published) < 10
                                THEN Cardinality(published) ELSE 10)
                /\ \A q \in published \ listed :
                       Cardinality({r \in listed : questions[r].pub_date
                                                   >= questions[q].pub_date}) >= 10
                /\ published = {} => list = <<>>

\* a listing cut at 10 that leaves out a published question as recent as the
\* last one listed
ListingCutsTie ==
    \E p \in Procs :
        /\ Done(p, "index")
        /\ LET list == response[p].context.latest_question_list
           IN  /\ Len(list) = 10
               /\ \E q \in DOMAIN questions :
                   /\ \A i \in 1..10 : list[i].pk # q
                   /\ questions[q].pub_date = questions[list[10].pk].pub_date

(***************************************************************************)
(* Exact arithmetic on the percentages, for the properties of Results: a    *)
(* dyadic [m, e] is the value m * 2^e for any natural m.                    *)
(***************************************************************************)
RECURSIVE BSubFrom(_, _, _, _)
BSubFrom(a, b, i, borrow) ==
    IF i > Len(a) THEN <<>>
    ELSE LET t == LimbAt(a, i) - LimbAt(b, i) - borrow
         IN  <<t % Limb>> \o BSubFrom(a, b, i + 1, IF t < 0 THEN 1 ELSE 0)

\* a - b for a >= b
BSub(a, b) ==
    BNorm(BSubFrom(a, b, 1, 0))

BLeq(a, b) ==
    ~BLess(b, a)

BDist(a, b) ==
    IF BLess(a, b) THEN BSub(b, a) ELSE BSub(a, b)

DyAlign(x, e) ==
    BShl(x.m, x.e - e)

DyMinExp(x, y) ==
    IF x.m = <<>> THEN y.e ELSE IF y.m = <<>> THEN x.e
    ELSE IF x.e <= y.e THEN x.e ELSE y.e

DyLeq(x, y) ==
    LET e == DyMinExp(x, y) IN BLeq(DyAlign(x, e), DyAlign(y, e))

DyAdd(x, y) ==
    LET e == DyMinExp(x, y) IN [m |-> BAdd(DyAlign(x, e), DyAlign(y, e)), e |-> e]

DyDist(x, y) ==
    LET e == DyMinExp(x, y) IN [m |-> BDist(DyAlign(x, e), DyAlign(y, e)), e |-> e]

DyNat(n) ==
    [m |-> BFromNat(n), e |-> 0]

DyEq(x, y) ==
    DyLeq(x, y) /\ DyLeq(y, x)

DyMulSmall(x, k) ==
    [m |-> BMulSmall(x.m, k), e |-> x.e]

DyShl(x, n) ==
    [m |-> x.m, e |-> x.e + n]

RECURSIVE DySum(_, _)
DySum(rows, i) ==
    IF i > Len(rows) THEN DyNat(0)
    ELSE DyAdd(rows[i].percentage, DySum(rows, i + 1))

RECURSIVE VotesSum(_, _)
VotesSum(rows, i) ==
    IF i > Len(rows) THEN 0 ELSE rows[i].votes + VotesSum(rows, i + 1)

\* |x - target| <= target * 2^-51: x is target but for the two roundings (of
\* the quotient and of the product), each within 2^-53 of its operand
WithinRounding(x, target) ==
    DyLeq(DyShl(DyDist(x, DyNat(target)), 51), DyNat(target))

\* |percentage - 100 * votes / total_votes| <= (100 * votes / total_votes) * 2^-51
NearQuotient(percentage, votes, total_votes) ==
    DyLeq(DyShl(DyDist(DyMulSmall(percentage, total_votes), DyNat(100 * votes)), 51),
          DyNat(100 * votes))

ResultsShown(p) ==
    Done(p, "results") /\ response[p].status = 200

\* C6: In Results every percentage is 0 when total_votes is 0, and otherwise
\* the floating-point value of votes / total_votes * 100: exactly 0 for no
\* votes, exactly 100 for all of them, 75 and 25 for 3 and 1 of 4, and in
\* general within the rounding of the division and the multiplication.
PercentagesFollowFormula ==
    \A p \in Procs :
        ResultsShown(p) =>
            LET total_votes == response[p].context.question.total_votes
                rows == response[p].context.choices
            IN  \A i \in 1..Len(rows) :
                    LET votes == rows[i].votes
                        percentage == rows[i].percentage
                    IN  /\ total_votes = 0 => percentage = FZero
                        /\ total_votes > 0 =>
                            /\ NearQuotient(percentage, votes, total_votes)
                            /\ votes = 0 => percentage = FZero
                            /\ votes = total_votes => DyEq(percentage, DyNat(100))
                            /\ (votes = 3 /\ total_votes = 4) => DyEq(percentage, DyNat(75))
                            /\ (votes = 1 /\ total_votes = 4) => DyEq(percentage, DyNat(25))

\* Results of a question with 3 votes and 1 vote: 75 and 25 of a total of 4
ResultsThreeToOne ==
    \E p \in Procs :
        /\ ResultsShown(p)
        /\ response[p].context.question.total_votes = 4
        /\ \E i, j \in 1..Len(response[p].context.choices) :
            /\ response[p].context.choices[i].votes = 3
            /\ DyEq(response[p].context.choices[i].percentage, DyNat(75))
            /\ response[p].context.choices[j].votes = 1
            /\ DyEq(response[p].context.choices[j].percentage, DyNat(25))

\* C7: most_popular_choice is none exactly when total_votes is 0 or the
\* question has no choices; otherwise it is the first, in the order the
\* choices were fetched, of the question's choices with the largest votes.
MostPopularIsFirstMaximum ==
    \A p \in Procs :
        ResultsShown(p) =>
            LET question == response[p].context.question
                rows == response[p].context.choices
                most == question.most_popular_choice
            IN  /\ most = <<>> <=> (question.total_votes = 0 \/ rows = <<>>)
                /\ most # <<>> =>
                    \E i \in 1..Len(rows) :
                        /\ most[1] = rows[i]
                        /\ choices[rows[i].pk].question = question.pk
                        /\ \A j \in 1..Len(rows) : rows[j].votes <= rows[i].votes
                        /\ \A j \in 1..(i - 1) : rows[j].votes < rows[i].votes

\* two choices share the largest votes and the first fetched is the most
\* popular
MostPopularOfTie ==
    \E p \in Procs :
        /\ ResultsShown(p)
        /\ LET rows == response[p].context.choices
           IN  /\ Len(rows) = 2
               /\ rows[1].votes = rows[2].votes
               /\ rows[1].votes > 0
               /\ response[p].context.question.most_popular_choice = <<rows[1]>>

\* C8: No counter is ever negative and no step lowers one; the UPDATE of a
\* vote raises the selected choice by exactly 1 and leaves the others alone,
\* and no other step (of the listing, detail, results, or of a vote that
\* fails) changes any counter.
CountersOnlyGrowByVotes ==
    /\ [](\A c \in ChoicePks : VotesOf(c) >= 0)
    /\ [][/\ \A c \in ChoicePks : VotesOf(c)' >= VotesOf(c)
          /\ \A p \in Procs :
                (pc[p] = "vote_save" /\ pc'[p] # "vote_save")
                => choices' = [choices EXCEPT
                                  ![local[p].selected_choice.pk].votes = @ + 1]
          /\ choices' # choices
             => \E p \in Procs : pc[p] = "vote_save" /\ pc'[p] = "vote_refresh"]_vars

\* a listing answered after a vote was counted
ListingAfterVote ==
    /\ Done(Client, "index")
    /\ \E c \in ChoicePks : VotesOf(c) = 1 /\ voted[c] = 1

QuestionSum(question_id) ==
    SumVotes({c \in ChoicePks : choices[c].question = question_id})

\* C9: The total a view attaches to a question is the sum of the counters of
\* that question's choices as stored when the view queries them, the integer
\* 0 for a question without choices, whichever of the listing, detail and
\* results computes it.
TotalsAgree ==
    /\ [](\A q \in QuestionPks :
            /\ Coalesce(AggregateSum(choice_set(q)), 0) = QuestionSum(q)
            /\ OrZero(AggregateSum(choice_set(q))) = QuestionSum(q)
            /\ choice_set(q) = {} => QuestionSum(q) = 0)
    /\ [](\A p \in Procs :
            /\ Done(p, "index") =>
                \A i \in 1..Len(response[p].context.latest_question_list) :
                    LET shown == response[p].context.latest_question_list[i]
                    IN  (\A c \in ChoicePks : choices[c].question # shown.pk)
                        => shown.total_votes = 0
            /\ (ResultsShown(p)
                /\ \A c \in ChoicePks : choices[c].question # request[p].question_id)
               => /\ response[p].context.question.total_votes = 0
                  /\ response[p].context.question.most_popular_choice = <<>>)
    /\ [][\A p \in Procs :
            /\ pc[p] = "index_question" =>
                LET done == Len(local[p].attached) + 1
                    q == local[p].latest_question_list[done]
                IN  IF pc'[p] = "index_question"
                    THEN Len(local'[p].attached) = done
                         => local'[p].attached[done] = QuestionSum(q)
                    ELSE response'[p].context.latest_question_list[done]
                         = [pk |-> q, total_votes |-> QuestionSum(q)]
            /\ (pc[p] = "detail_total" /\ pc'[p] = "done")
               => response'[p].context.question.total_votes
                  = QuestionSum(request[p].question_id)
            /\ (pc[p] = "results_total" /\ pc'[p] = "results_choices")
               => local'[p].total_votes = QuestionSum(request[p].question_id)
            /\ (pc[p] = "results_choices" /\ pc'[p] = "done")
               => response'[p].context.question.total_votes = local[p].total_votes]_vars

\* Results of a question without choices: total 0, no most popular choice
ResultsWithoutChoices ==
    \E p \in Procs :
        /\ ResultsShown(p)
        /\ response[p].context.choices = <<>>
        /\ response[p].context.question.total_votes = 0
        /\ response[p].context.question.most_popular_choice = <<>>

\* C10 as claimed: in every Results, each choice's votes are at most
\* total_votes, each percentage is between 0 and 100, and with total_votes > 0
\* the percentages sum to 100.
PercentagesWithinHundred ==
    \A p \in Procs :
        ResultsShown(p) =>
            LET total_votes == response[p].context.question.total_votes
                rows == response[p].context.choices
            IN  /\ \A i \in 1..Len(rows) :
                    /\ rows[i].votes <= total_votes
                    /\ DyLeq(rows[i].percentage, DyNat(100))
                /\ (total_votes > 0 /\ rows # <<>>) => DyEq(DySum(rows, 1), DyNat(100))

\* C10, amended: total_votes is at most the sum of the votes fetched (a vote
\* counted between the two queries is in the numerators only); when they are
\* equal, that is when no vote for the question was counted between the two
\* queries, each choice's votes are at most total_votes, each percentage is
\* between 0 and 100 and, with total_votes > 0, the percentages sum to 100
\* within the rounding of the floating-point operations.
PercentagesOfOneSnapshot ==
    \A p \in Procs :
        ResultsShown(p) =>
            LET total_votes == response[p].context.question.total_votes
                rows == response[p].context.choices
            IN  /\ total_votes <= VotesSum(rows, 1)
                /\ total_votes = VotesSum(rows, 1) =>
                    /\ \A i \in 1..Len(rows) :
                        /\ rows[i].votes <= total_votes
                        /\ DyLeq(rows[i].percentage, DyNat(100))
                    /\ total_votes > 0 => WithinRounding(DySum(rows, 1), 100)

\* Results of one snapshot with 1 vote and 2 votes of 3: the two percentages
\* do not sum to 100 exactly
ResultsOfThirds ==
    \E p \in Procs :
        /\ ResultsShown(p)
        /\ response[p].context.question.total_votes = 3
        /\ LET rows == response[p].context.choices
           IN  /\ Len(rows) = 2
               /\ rows[1].votes = 1
               /\ rows[2].votes = 2
               /\ ~DyEq(DySum(rows, 1), DyNat(100))

====
